---- MODULE Spec2Model ----
(***************************************************************************)
(* One run of src/models/whisper/transcribe.py: the module-level decoder   *)
(* check, the __main__ block, transcribe_audio and its two helpers         *)
(* get_gpu_load_simulated and _confidence_from_segments.                   *)
(*                                                                         *)
(* Units.  Times are integers in milliseconds (the code's seconds * 1000). *)
(* Log-probabilities are integers in units of 1e-8.  A per-segment         *)
(* confidence is an integer in units of 1e-4 (ConfScale = 1.0).  The       *)
(* aggregate num / den is kept as an exact fraction in units of 1e-4; the  *)
(* code's float differs from it by less than 3e-5 of a unit (the error of  *)
(* the exp table plus the float error).                                    *)
(***************************************************************************)
EXTENDS Integers, Sequences, FiniteSets

\* ---------------------------------------------------------------- bounds
MaxSegs == 2          \* longest segment list the engine returns
LoadMax == 100        \* top of the sampler's nominal range [0, LoadMax]

\* ------------------------------------------------------ program constants
LoadThreshold == 60   \* line 22: load > 60
EpsilonMs == 1        \* line 38: 1e-3 seconds
ConfScale == 10000    \* line 89: round(..., 4), i.e. 1.0 in units of 1e-4
PercentScale == 100   \* line 90: overall_conf * 100.0

\* Lines 89-90 round a binary float.  A value within 1 / (2 * TieGuard) of the
\* midpoint between two neighbours may go to either: which one is decided by
\* digits the fixed-point fraction does not carry.
TieGuard == 10000

\* Line 39: stands for avg_logprob = 1000.0, which the 1e-8 unit cannot
\* express; math.exp raises OverflowError on it (as on anything above 709.78).
LpHuge == 2147483647

\* ------------------------------------------------------------ input sets
\* Values psutil.cpu_percent may hand back, and two values outside [0,100].
OutOfRangeLoads == {-5, LoadMax + 50}
SamplerOutcomes ==
    [raises : {FALSE}, load : (0 .. LoadMax) \cup OutOfRangeLoads]
        \cup {[raises |-> TRUE, load |-> 0]}

\* exp() on the log-probabilities the engine returns here.  A log-probability
\* is an integer in units of 1e-8; Exp[lp] is 10000 * exp(lp / 1e8), which for
\* these values is a whole number of 1e-4 units to within 2.1e-5 of a unit.
LogProbs == {-2000000000, -160943791, -69314718, -22314355, 0, 69314718}
Exp == [lp \in LogProbs |->
          CASE lp = -2000000000 -> 0        \* exp(-20)
            [] lp = -160943791  -> 2000     \* exp(ln 0.2)
            [] lp = -69314718   -> 5000     \* exp(ln 0.5)
            [] lp = -22314355   -> 8000     \* exp(ln 0.8)
            [] lp = 0           -> 10000    \* exp(0)
            [] lp = 69314718    -> 20000]   \* exp(ln 2)

\* Line 39: math.exp(float(avg_lp)) raises.
ExpRaises(lp) == lp = LpHuge

Seg(s, e, lp) == [start |-> s, end |-> e, has_lp |-> TRUE, avg_logprob |-> lp]
SegNoLp(s, e) == [start |-> s, end |-> e, has_lp |-> FALSE, avg_logprob |-> 0]

\* The segments the engine may return.
SegmentPool ==
    { Seg(0, 1000, 0),                \* 1 s, confidence 1.0
      Seg(1000, 10000, -2000000000),  \* 9 s, confidence 0.0
      Seg(0, 1000, -160943791),       \* 1 s, confidence 0.2
      Seg(1000, 2000, -22314355),     \* 1 s, confidence 0.8
      SegNoLp(2000, 3000),            \* no avg_logprob
      Seg(3000, 3000, 0),             \* zero length
      Seg(5000, 4000, 69314718),      \* reversed; exp = 2.0 before the clamp
      Seg(1000, 7410, -2000000000),   \* 6.41 s, confidence 0.0
      Seg(0, 1000, LpHuge) }          \* avg_logprob 1000.0

SegLists == UNION { [1 .. n -> SegmentPool] : n \in 0 .. MaxSegs }

\* The text the engine returns; "<bytes>" stands for a value json.dumps
\* cannot serialise.
Texts == {"", "hello", "<bytes>"}
Serialisable(text) == text # "<bytes>"

\* ----------------------------------------------------------------- state
VARIABLES
    env,            \* what the run finds: PATH, argv, files, the sampler's outcome
    pc,             \* position in the script
    stdout,         \* the lines printed, in order
    exitCode,       \* -1 while running, then the process exit status
    ffmpegRuns,     \* subprocess.run calls made
    samplerCalls,   \* psutil.cpu_percent calls made
    engineCalls,    \* whisper.load_model / model.transcribe calls, in order
    model_name,     \* transcribe_audio's model_name
    result,         \* what model.transcribe returned
    overall_conf    \* transcribe_audio's overall_conf

vars == <<env, pc, stdout, exitCode, ffmpegRuns, samplerCalls, engineCalls,
          model_name, result, overall_conf>>

NoModel == "(unset)"
NoResult == [present |-> FALSE, text |-> "", segments |-> <<>>]
None == [none |-> TRUE, num |-> 0, den |-> 1]
Frac(n, d) == [none |-> FALSE, num |-> n, den |-> d]

Max(a, b) == IF a >= b THEN a ELSE b
Min(a, b) == IF a <= b THEN a ELSE b

Debug(m) == [kind |-> "debug", msg |-> m]
Error(m) == [kind |-> "error", msg |-> m]

\* -------------------------------------------------------- pure functions
\* A variant with the comparison load >= 60.
get_gpu_load_simulated_ge(load) ==
    IF load >= LoadThreshold THEN "tiny.en" ELSE "small.en"

\* Lines 19-22, after the sample is taken: "tiny.en" if load > 60 else "small.en".
get_gpu_load_simulated(load) ==
    IF load > LoadThreshold THEN "tiny.en" ELSE "small.en"

\* Line 38: max(1e-3, end - start).
Duration(seg) == Max(EpsilonMs, seg.end - seg.start)

\* Lines 39-41: exp(avg_lp) clamped to [0, 1].
SegConfidence(seg) == Max(0, Min(ConfScale, Exp[seg.avg_logprob]))

\* Lines 33-39: the loop raises at a segment that has an avg_logprob on which
\* math.exp raises (a segment without one is skipped before anything is read).
ConfRaises(segments) ==
    \E i \in 1 .. Len(segments) :
        segments[i].has_lp /\ ExpRaises(segments[i].avg_logprob)

\* Lines 33-43: the loop, from segment i on, with the running num and den.
RECURSIVE ConfLoop(_, _, _, _)
ConfLoop(segments, i, num, den) ==
    IF i > Len(segments) THEN <<num, den>>
    ELSE IF ~segments[i].has_lp THEN ConfLoop(segments, i + 1, num, den)
    ELSE ConfLoop(segments, i + 1,
                  num + SegConfidence(segments[i]) * Duration(segments[i]),
                  den + Duration(segments[i]))

\* Line 46: max(0.0, min(1.0, num / den)), on the fraction num / den (1e-4 units).
ClampUnit(num, den) ==
    IF num < 0 THEN Frac(0, 1)
    ELSE IF num > ConfScale * den THEN Frac(ConfScale, 1)
    ELSE Frac(num, den)

\* Lines 24-46, for segments on which the loop does not raise.
confidence_from_segments(segments) ==
    IF segments = <<>> THEN None
    ELSE LET nd == ConfLoop(segments, 1, 0, 0) IN
         IF nd[2] = 0 THEN None ELSE ClampUnit(nd[1], nd[2])

\* A variant whose fallback is 0.0.
WithFallbackZero(conf) == IF conf.none THEN Frac(0, 1) ELSE conf

\* Lines 83-84: a None aggregate becomes 0.5.
WithFallback(conf) == IF conf.none THEN Frac(ConfScale \div 2, 1) ELSE conf

\* Python's round() of the float that stands for n / d (n >= 0, d > 0): the
\* nearest integer; within the tie guard of a midpoint, either neighbour.
Roundings(n, d) ==
    LET q == n \div d
        r == n % d
        off == IF 2 * r >= d THEN 2 * r - d ELSE d - 2 * r
    IN  IF off <= d \div TieGuard THEN {q, q + 1}
        ELSE IF 2 * r < d THEN {q} ELSE {q + 1}

\* Line 89: round(float(overall_conf), 4), in units of 1e-4.
RoundedConfidence(conf) == Roundings(conf.num, conf.den)

\* Line 90: int(round(overall_conf * 100.0)).
ConfidencePercent(conf) ==
    Roundings(conf.num, conf.den * (ConfScale \div PercentScale))

\* Lines 86-91: the success object.
Out(text, name, confidence, percent) ==
    [kind |-> "result", text |-> text, model |-> name,
     confidence |-> confidence, confidence_percent |-> percent]

\* ------------------------------------------------------------------ run
Envs == [pathSet : BOOLEAN, argvPresent : BOOLEAN, ffmpegExists : BOOLEAN,
         wavExists : BOOLEAN, baseEnExists : BOOLEAN, sampler : SamplerOutcomes]

Init ==
    /\ env \in Envs
    /\ pc = "module"
    /\ stdout = <<>>
    /\ exitCode = -1
    /\ ffmpegRuns = 0
    /\ samplerCalls = 0
    /\ engineCalls = <<>>
    /\ model_name = NoModel
    /\ result = NoResult
    /\ overall_conf = None

\* The process ends with `code` after printing `line`.
Finish(line, code) ==
    /\ stdout' = Append(stdout, line)
    /\ exitCode' = code
    /\ pc' = "done"

\* An exception nothing catches: a traceback on stderr, exit status 1.
Crash ==
    /\ exitCode' = 1
    /\ pc' = "done"
    /\ UNCHANGED stdout

\* A variant that exits 0 when the decoder executable is missing.
ModuleInitExitZero ==
    /\ pc = "module"
    /\ IF ~env.ffmpegExists
       THEN Finish(Error("FFmpeg not found"), 0)
       ELSE IF ~env.pathSet
       THEN Crash
       ELSE /\ pc' = "main"
            /\ UNCHANGED <<stdout, exitCode>>
    /\ UNCHANGED <<env, ffmpegRuns, samplerCalls, engineCalls, model_name,
                   result, overall_conf>>

\* Lines 13-17: the module-level check that the decoder executable exists,
\* then os.environ["PATH"], a KeyError when PATH is not set.
ModuleInit ==
    /\ pc = "module"
    /\ IF ~env.ffmpegExists
       THEN Finish(Error("FFmpeg not found"), 1)
       ELSE IF ~env.pathSet
       THEN Crash
       ELSE /\ pc' = "main"
            /\ UNCHANGED <<stdout, exitCode>>
    /\ UNCHANGED <<env, ffmpegRuns, samplerCalls, engineCalls, model_name,
                   result, overall_conf>>

\* Lines 96-103 and 49: the argument check, then transcribe_audio's first line.
Main ==
    /\ pc = "main"
    /\ IF ~env.argvPresent
       THEN Finish(Error("WAV file path not provided."), 1)
       ELSE /\ stdout' = Append(stdout, Debug("Transcribe.py received file"))
            /\ pc' = "wav"
            /\ UNCHANGED exitCode
    /\ UNCHANGED <<env, ffmpegRuns, samplerCalls, engineCalls, model_name,
                   result, overall_conf>>

\* Lines 51-53: the input file must exist; otherwise an error and return.
CheckWav ==
    /\ pc = "wav"
    /\ IF ~env.wavExists
       THEN Finish(Error("WAV file not found"), 0)
       ELSE /\ pc' = "ffmpeg"
            /\ UNCHANGED <<stdout, exitCode>>
    /\ UNCHANGED <<env, ffmpegRuns, samplerCalls, engineCalls, model_name,
                   result, overall_conf>>

\* Lines 55-59: ffmpeg -version; any exception is an error and return.
CheckFfmpeg ==
    /\ pc = "ffmpeg"
    /\ ffmpegRuns' = ffmpegRuns + 1
    /\ \E healthy \in BOOLEAN :
          IF ~healthy
          THEN Finish(Error("FFmpeg execution failed"), 0)
          ELSE /\ pc' = "load"
               /\ UNCHANGED <<stdout, exitCode>>
    /\ UNCHANGED <<env, samplerCalls, engineCalls, model_name, result,
                   overall_conf>>

\* Line 93-94: an exception inside the try block.
WhisperFailed(lines) ==
    /\ stdout' = lines \o <<Error("Whisper failed")>>
    /\ exitCode' = 0
    /\ pc' = "done"

\* A variant that lets a high load override the local artifact.
SelectLocalLoadFirst(lines) ==
    /\ env.baseEnExists
    /\ engineCalls' = Append(engineCalls, [op |-> "load_model", arg |-> "base.en"])
    /\ UNCHANGED samplerCalls
    /\ model_name' = IF ~env.sampler.raises /\ env.sampler.load > LoadThreshold
                     THEN "tiny.en" ELSE "base.en (local)"
    /\ stdout' = lines
    /\ pc' = "transcribe"
    /\ UNCHANGED exitCode

\* Lines 68-70: base-en.pt exists, so base.en is loaded from MODEL_DIR.
SelectLocal(lines) ==
    /\ env.baseEnExists
    /\ engineCalls' = Append(engineCalls, [op |-> "load_model", arg |-> "base.en"])
    /\ UNCHANGED samplerCalls
    /\ \E loaded \in BOOLEAN :
          IF loaded
          THEN /\ model_name' = "base.en (local)"
               /\ stdout' = lines
               /\ pc' = "transcribe"
               /\ UNCHANGED exitCode
          ELSE /\ WhisperFailed(lines)
               /\ UNCHANGED model_name

\* A variant that samples the load once for the load call and again for the name.
SelectByLoadTwice(lines) ==
    /\ ~env.baseEnExists
    /\ ~env.sampler.raises
    /\ samplerCalls' = samplerCalls + 2
    /\ engineCalls' = Append(engineCalls,
                             [op |-> "load_model",
                              arg |-> get_gpu_load_simulated(env.sampler.load)])
    /\ model_name' = get_gpu_load_simulated(env.sampler.load)
    /\ stdout' = lines
    /\ pc' = "transcribe"
    /\ UNCHANGED exitCode

\* Lines 71-74: no base-en.pt, so the load sample picks the model.
SelectByLoad(lines) ==
    /\ ~env.baseEnExists
    /\ samplerCalls' = samplerCalls + 1
    /\ IF env.sampler.raises
       THEN /\ WhisperFailed(lines)
            /\ UNCHANGED <<engineCalls, model_name>>
       ELSE LET chosen_model == get_gpu_load_simulated(env.sampler.load) IN
            /\ engineCalls' = Append(engineCalls,
                                     [op |-> "load_model", arg |-> chosen_model])
            /\ \E loaded \in BOOLEAN :
                  IF loaded
                  THEN /\ model_name' = chosen_model
                       /\ stdout' = lines
                       /\ pc' = "transcribe"
                       /\ UNCHANGED exitCode
                  ELSE /\ WhisperFailed(lines)
                       /\ UNCHANGED model_name

\* Lines 61-74: import torch, pick the device, load the model.  The device is
\* only printed and handed to the engine; which one it is is not recorded.
LoadModel ==
    /\ pc = "load"
    /\ \/ /\ WhisperFailed(stdout)             \* import torch raises
          /\ UNCHANGED <<samplerCalls, engineCalls, model_name>>
       \/ LET lines == Append(stdout, Debug("Using device")) IN
             \/ SelectLocal(lines)
             \/ SelectByLoad(lines)
    /\ UNCHANGED <<env, ffmpegRuns, result, overall_conf>>

\* Lines 77-79: model.transcribe, then text and segments with their defaults.
Transcribe ==
    /\ pc = "transcribe"
    /\ engineCalls' = Append(engineCalls, [op |-> "transcribe", arg |-> "wav_file"])
    /\ \/ /\ WhisperFailed(stdout)
          /\ UNCHANGED result
       \/ \E text \in Texts, segments \in SegLists :
             /\ result' = [present |-> TRUE, text |-> text, segments |-> segments]
             /\ pc' = "emit"
             /\ UNCHANGED <<stdout, exitCode>>
    /\ UNCHANGED <<env, ffmpegRuns, samplerCalls, model_name, overall_conf>>

\* Lines 81-92, still inside the try: aggregate, fall back to 0.5, print the
\* success object.  An exception in the loop (line 39) or in json.dumps
\* (line 92) ends in the except of lines 93-94.
Emit ==
    /\ pc = "emit"
    /\ IF ConfRaises(result.segments)
       THEN /\ WhisperFailed(stdout)
            /\ UNCHANGED overall_conf
       ELSE LET conf == WithFallback(confidence_from_segments(result.segments)) IN
            /\ overall_conf' = conf
            /\ IF ~Serialisable(result.text)
               THEN WhisperFailed(stdout)
               ELSE \E confidence \in RoundedConfidence(conf),
                       percent \in ConfidencePercent(conf) :
                       Finish(Out(result.text, model_name, confidence, percent), 0)
    /\ UNCHANGED <<env, ffmpegRuns, samplerCalls, engineCalls, model_name, result>>

Next ==
    \/ ModuleInit
    \/ Main
    \/ CheckWav
    \/ CheckFfmpeg
    \/ LoadModel
    \/ Transcribe
    \/ Emit

\* No fairness is stated: subprocess.run (line 56, no timeout),
\* psutil.cpu_percent and the engine calls may block for ever, which here is
\* a run that stays where it is.
Spec == Init /\ [][Next]_vars

\* --------------------------------------------------------------- claims
ResultLines == SelectSeq(stdout, LAMBDA l : l.kind \in {"result", "error"})
LastLine == stdout[Len(stdout)]
Succeeded == pc = "done" /\ stdout # <<>> /\ LastLine.kind = "result"
Failed == pc = "done" /\ stdout # <<>> /\ LastLine.kind = "error"
HealthFailed == \E i \in 1 .. Len(stdout) : stdout[i] = Error("FFmpeg execution failed")
Contributing(segments) == SelectSeq(segments, LAMBDA seg : seg.has_lp)

\* C1: a run never has two result objects on standard output, and a run that
\* has ended has written exactly one (one success object or one error object).
C1_ExactlyOneResult ==
    /\ Len(ResultLines) <= 1
    /\ pc = "done" => Len(ResultLines) = 1

\* C2: with base-en.pt present the run uses the cached local variant whatever
\* the load is, and never samples the load.
C2_LocalArtifactWins ==
    /\ (env.baseEnExists /\ pc \in {"transcribe", "emit"})
          => (model_name = "base.en (local)" /\ samplerCalls = 0)
    /\ (env.baseEnExists /\ Succeeded)
          => (LastLine.model = "base.en (local)" /\ samplerCalls = 0)

\* A successful run with the artifact present while the load is 99.
C2_Witness ==
    /\ Succeeded
    /\ env.baseEnExists
    /\ ~env.sampler.raises
    /\ env.sampler.load = 99
    /\ LastLine.model = "base.en (local)"

\* C3: without base-en.pt, a load sample in 0..100 selects tiny.en exactly when
\* it is above 60, and small.en otherwise (60 itself gives small.en).
C3_LoadThreshold ==
    (/\ ~env.baseEnExists
     /\ ~env.sampler.raises
     /\ env.sampler.load \in 0 .. 100
     /\ samplerCalls > 0)
        => /\ engineCalls # <<>>
           /\ engineCalls[1].arg \in {"tiny.en", "small.en"}
           /\ engineCalls[1].arg = "tiny.en" <=> env.sampler.load > 60
           /\ pc \in {"transcribe", "emit"} => model_name = engineCalls[1].arg
           /\ Succeeded => LastLine.model = engineCalls[1].arg

\* A successful run at the boundary load 60, which used small.en.
C3_Witness ==
    /\ Succeeded
    /\ ~env.baseEnExists
    /\ ~env.sampler.raises
    /\ env.sampler.load = 60
    /\ LastLine.model = "small.en"

\* The claim's own reading of one segment: its weight and its confidence
\* (exp of the log-probability clamped to [0, 1]; exp(1000) clamps to 1).
C4_Weight(seg) ==
    IF seg.end - seg.start > 1 THEN seg.end - seg.start ELSE 1
C4_Conf(seg) ==
    IF seg.avg_logprob = LpHuge THEN 10000
    ELSE IF Exp[seg.avg_logprob] > 10000 THEN 10000
    ELSE IF Exp[seg.avg_logprob] < 0 THEN 0 ELSE Exp[seg.avg_logprob]
RECURSIVE C4_SumWeight(_)
C4_SumWeight(segments) ==
    IF segments = <<>> THEN 0
    ELSE C4_Weight(Head(segments)) + C4_SumWeight(Tail(segments))
RECURSIVE C4_SumConfWeight(_)
C4_SumConfWeight(segments) ==
    IF segments = <<>> THEN 0
    ELSE C4_Conf(Head(segments)) * C4_Weight(Head(segments))
            + C4_SumConfWeight(Tail(segments))

\* C4: when at least one segment carries a log-probability, the aggregate is
\* sum(conf_i * dur_i) / sum(dur_i) over exactly those segments, with
\* dur_i = max(epsilon, end_i - start_i) and conf_i clamped to [0, 1]; it lies
\* in [0, 1]; durations 1 and 9 with confidences 1.0 and 0.0 give 0.1, and
\* equal durations with 0.2 and 0.8 give 0.5.
C4_DurationWeightedMean ==
    (pc = "done" /\ result.present /\ Contributing(result.segments) # <<>>)
        => LET with_lp == Contributing(result.segments) IN
           /\ ~overall_conf.none
           /\ overall_conf.num = C4_SumConfWeight(with_lp)
           /\ overall_conf.den = C4_SumWeight(with_lp)
           /\ 0 <= overall_conf.num
           /\ overall_conf.num <= 10000 * overall_conf.den
           /\ result.segments = <<Seg(0, 1000, 0), Seg(1000, 10000, -2000000000)>>
                 => overall_conf.num = 1000 * overall_conf.den
           /\ result.segments = <<Seg(0, 1000, -160943791), Seg(1000, 2000, -22314355)>>
                 => overall_conf.num = 5000 * overall_conf.den
           /\ Succeeded => LastLine.confidence \in 0 .. 10000

\* C5: when no segment contributes (no segments, or none with a
\* log-probability), the aggregate of a run whose transcription returned is
\* the fallback 0.5, the aggregation is not what makes a run fail (the only
\* failure left is a text that cannot be serialised), and the success object
\* carries confidence 0.5 and confidence_percent 50.
C5_NeutralFallback ==
    (pc = "done" /\ result.present /\ Contributing(result.segments) = <<>>)
        => /\ overall_conf = Frac(5000, 1)
           /\ Failed <=> ~Serialisable(result.text)
           /\ Succeeded => /\ LastLine.confidence = 5000
                           /\ LastLine.confidence_percent = 50

\* A successful run whose only segment had no log-probability.
C5_Witness ==
    /\ Succeeded
    /\ result.segments = <<SegNoLp(2000, 3000)>>
    /\ LastLine.confidence = 5000
    /\ LastLine.confidence_percent = 50

\* n / d rounded to the nearest integer, a tie going to the even neighbour
\* (Python's round) or going up.
RoundHalfEven(n, d) ==
    LET q == n \div d
        r == n % d
    IN  IF 2 * r < d THEN q
        ELSE IF 2 * r > d THEN q + 1
        ELSE IF q % 2 = 0 THEN q ELSE q + 1
RoundHalfUp(n, d) == (2 * n + d) \div (2 * d)

\* C6: in every success object, confidence_percent = round(confidence * 100),
\* confidence being the emitted 4-digit scalar; a tie may go either way.
C6_PercentMatchesConfidence ==
    Succeeded => LastLine.confidence_percent
                    \in {RoundHalfEven(LastLine.confidence, 100),
                         RoundHalfUp(LastLine.confidence, 100)}

\* C7: the engine is called only after the input file was found and the decoder
\* passed its health check; a missing file, a missing decoder or a failed
\* health check ends the run with an error object and no engine call; no step
\* runs twice.
C7_EngineAfterChecks ==
    /\ engineCalls # <<>>
          => /\ env.ffmpegExists /\ env.argvPresent /\ env.wavExists
             /\ ffmpegRuns = 1
             /\ ~HealthFailed
    /\ (pc = "done" /\ (~env.wavExists \/ ~env.ffmpegExists \/ HealthFailed))
          => (engineCalls = <<>> /\ Failed)
    /\ ffmpegRuns <= 1
    /\ samplerCalls <= 1
    /\ Len(engineCalls) <= 2
    /\ Len(engineCalls) >= 1 => engineCalls[1].op = "load_model"
    /\ Len(engineCalls) = 2 => engineCalls[2].op = "transcribe"

\* C8 as stated: the exit status is non-zero only when the path argument is
\* absent, and every other failure exits 0.
C8_NonZeroOnlyWithoutArgument ==
    pc = "done" => /\ exitCode # 0 => ~env.argvPresent
                   /\ (Failed /\ env.argvPresent) => exitCode = 0

\* C8 amended: the exit status is 1 exactly when the run ends before
\* transcribe_audio is entered, which happens in three cases taken in this
\* order: the decoder executable is missing (one error object), PATH is not
\* set (an uncaught KeyError, nothing on standard output), the path argument
\* is absent (one error object); every other failure is one error object with
\* exit status 0.
C8_NonZeroExits ==
    pc = "done"
        => /\ exitCode \in {0, 1}
           /\ exitCode = 1
                 <=> (~env.ffmpegExists \/ ~env.pathSet \/ ~env.argvPresent)
           /\ ~env.ffmpegExists => stdout = <<Error("FFmpeg not found")>>
           /\ (env.ffmpegExists /\ ~env.pathSet) => stdout = <<>>
           /\ (env.ffmpegExists /\ env.pathSet /\ ~env.argvPresent)
                 => stdout = <<Error("WAV file path not provided.")>>
           /\ exitCode = 1 => (ffmpegRuns = 0 /\ samplerCalls = 0 /\ engineCalls = <<>>)
           /\ exitCode = 0 => (Succeeded \/ Failed)

\* A run given its argument, with PATH set, that exits 1 because the decoder
\* is missing.
C8_Witness ==
    /\ pc = "done"
    /\ exitCode = 1
    /\ env.argvPresent
    /\ env.pathSet
    /\ ~env.ffmpegExists

\* C9: without base-en.pt, a sampler that raises or returns a value outside
\* [0, 100] makes the run go on with tiny.en.
C9_SamplerFailsClosed ==
    (/\ pc = "done"
     /\ ~env.baseEnExists
     /\ samplerCalls > 0
     /\ (env.sampler.raises \/ env.sampler.load \notin 0 .. 100))
        => /\ engineCalls # <<>>
           /\ engineCalls[1].arg = "tiny.en"

\* C10 as stated: in a successful run the selected identifier, the identifier
\* given to load_model and the model field are one value, on both branches, and
\* the load is sampled at most once.
C10_OneIdentifier ==
    Succeeded => /\ engineCalls[1].arg = model_name
                 /\ LastLine.model = model_name
                 /\ samplerCalls <= 1

\* C10 amended: the model field is the name fixed at selection and the load is
\* sampled at most once; on the load-based branch that name is also the
\* identifier given to load_model, while on the local-artifact branch
\* load_model is given "base.en" and the model field is "base.en (local)".
C10_IdentifierPerBranch ==
    /\ samplerCalls <= 1
    /\ pc \in {"transcribe", "emit"} => model_name # NoModel
    /\ Succeeded
          => /\ LastLine.model = model_name
             /\ IF env.baseEnExists
                THEN /\ engineCalls[1].arg = "base.en"
                     /\ LastLine.model = "base.en (local)"
                     /\ samplerCalls = 0
                ELSE /\ engineCalls[1].arg = LastLine.model
                     /\ samplerCalls = 1

\* A successful run on the local-artifact branch.
C10_Witness ==
    /\ Succeeded
    /\ env.baseEnExists
    /\ engineCalls[1].arg = "base.en"
    /\ LastLine.model = "base.en (local)"

====
